---- MODULE Spec2Model ----
(***************************************************************************)
(* A model of the key shop of nddev15/keys: the flat-file key pools and    *)
(* the solved log (local files and their remote mirror), the orders table, *)
(* the coupon and promo stores and the fulfilment handler                  *)
(* POST /check_mb_payment, with the dashboard and chat-bot operations that *)
(* touch the same stores.                                                  *)
(*                                                                         *)
(* A text file is a sequence of lines; a line is the stripped text of the  *)
(* line, so a blank line is the empty string.  The model covers two of the *)
(* four period pools (key1d.txt, key7d.txt); the code treats the four      *)
(* alike.                                                                  *)
(***************************************************************************)
EXTENDS Integers, Sequences, FiniteSets, TLC

VARIABLES
    use_github,   \* GitHubDataManager.use_github, fixed at construction
    pool,         \* local data/keys/key<period>.txt, period -> lines
    rpool,        \* the same files in the remote repository
    solved,       \* local data/keys/key_solved.txt, sequence of entries
    rsolved,      \* remote data/keys/key_solved.txt
    issued,       \* the uids generate_uid has produced so far
    orders,       \* table orders, uid -> row
    coupons,      \* data/coupon/coupons.json, code -> coupon
    promo_codes,  \* table promo_codes, code -> row
    sent,         \* delivery emails the provider accepted, in order
    dlog,         \* table key_delivery_log
    now,          \* the clock, in seconds
    resp,         \* what the last fulfilment or retire request returned
    pc,           \* position of each concurrent thread
    buf,          \* what each thread holds in memory
    bank_reply,   \* the list the bank endpoint returned
    expected,     \* amount and verification code the matcher looks for
    found_tx,     \* index of the transaction the matcher found, 0 for none
    otp_storage,  \* email -> the pending login code
    email_send_tracking,  \* email -> count, reset_time, cooldown_until
    otp_requests, \* email -> times of its last login-code requests
    otp_mails,    \* email -> times of the last login-code emails sent to it
    session,      \* browser -> its session cookie
    lifetime_cfg, \* app.config['PERMANENT_SESSION_LIFETIME']
    req,          \* browser -> position of the request being served
    user_states   \* chat bot, chat id -> the dialogue's state

keyVars  == <<pool, rpool, solved, rsolved>>
shopVars == <<issued, orders, coupons, promo_codes, sent, dlog>>
thrVars  == <<pc, buf>>
matchVars == <<bank_reply, expected, found_tx>>
\* what no operation on keys, orders or coupons touches
otpVars == <<otp_storage, email_send_tracking, otp_requests, otp_mails>>
sessVars == <<session, lifetime_cfg, req>>
botVars == <<user_states>>
extVars == <<matchVars, otpVars, sessVars, botVars>>
\* what the matcher and the admin login never touch
coreVars == <<use_github, pool, rpool, solved, rsolved, issued, orders,
              coupons, promo_codes, sent, dlog, resp, pc, buf, user_states>>
vars == <<use_github, pool, rpool, solved, rsolved, issued, orders, coupons,
          promo_codes, sent, dlog, now, resp, pc, buf, bank_reply,
          expected, found_tx, otp_storage, email_send_tracking, otp_requests,
          otp_mails, session, lifetime_cfg, req, user_states>>

----------------------------------------------------------------------------
(* Bounds of the model *)

MaxLines  == 2      \* lines the pool files of one store hold in all
MaxSolved == 2      \* entries a solved log may hold

Keys   == {"K1", "K2"}
Emails == {"a@x"}
Blank  == ""
AdminEmails == Emails \cup {Blank}   \* session admin_email, '' when unset
None   == "None"
key_files == <<"1d", "7d">>
Periods == {key_files[i] : i \in 1..Len(key_files)}

----------------------------------------------------------------------------
(* Sequence helpers *)

Range(s) == {s[i] : i \in 1..Len(s)}

NonBlank(line) == line # Blank

Occurrences(s, x) == Cardinality({i \in 1..Len(s) : s[i] = x})

RECURSIVE SeqsUpTo(_, _)
SeqsUpTo(S, n) ==
    IF n = 0 THEN {<<>>}
    ELSE LET shorter == SeqsUpTo(S, n - 1)
         IN shorter \cup {Append(s, x) : s \in shorter, x \in S}

RECURSIVE TotalLines(_, _)
TotalLines(files, ps) ==
    IF ps = {} THEN 0
    ELSE LET p == CHOOSE q \in ps : TRUE
         IN Len(files[p]) + TotalLines(files, ps \ {p})

\* what an operation returned: its name, "ok" or "error", and why
Resp(op, status, reason) == [op |-> op, status |-> status, reason |-> reason]
NoResp == Resp("none", "none", "none")

\* a table or JSON object with no entries, and its update operations
Empty == [x \in {} |-> 0]
Put(f, k, v) == [x \in DOMAIN f \cup {k} |-> IF x = k THEN v ELSE f[x]]
Drop(f, k) == [x \in DOMAIN f \ {k} |-> f[x]]

----------------------------------------------------------------------------
(* Text: a string the code parses is a sequence of one-character strings.  *)

Lower == <<"a", "b">>
UpperOf == <<"A", "B">>

upper_char(c) ==
    IF \E i \in 1..Len(Lower) : Lower[i] = c
    THEN UpperOf[CHOOSE i \in 1..Len(Lower) : Lower[i] = c]
    ELSE c

\* str.upper()
upper(s) == [i \in 1..Len(s) |-> upper_char(s[i])]

\* needle in hay
Contains(hay, needle) ==
    \E i \in 0..(Len(hay) - Len(needle)) :
        SubSeq(hay, i + 1, i + Len(needle)) = needle

DigitChars == <<"0", "1", "2", "3", "4", "5", "6", "7", "8", "9">>
IsDigit(c) == \E i \in 1..10 : DigitChars[i] = c
DigitVal(c) == (CHOOSE i \in 1..10 : DigitChars[i] = c) - 1

RECURSIVE DigitsValue(_)
DigitsValue(s) ==
    IF Len(s) = 0 THEN 0
    ELSE 10 * DigitsValue(SubSeq(s, 1, Len(s) - 1)) + DigitVal(s[Len(s)])

\* int(text): an optional sign and digits; anything else raises ValueError
ParseInt(s) ==
    LET signed == Len(s) > 0 /\ s[1] \in {"+", "-"}
        digits == IF signed THEN SubSeq(s, 2, Len(s)) ELSE s
    IN IF Len(digits) = 0 \/ \E i \in 1..Len(digits) : ~IsDigit(digits[i])
       THEN [ok |-> FALSE, val |-> 0]
       ELSE [ok |-> TRUE,
             val |-> IF signed /\ s[1] = "-" THEN 0 - DigitsValue(digits)
                     ELSE DigitsValue(digits)]

\* tx.get("amount", "0").replace(",", "").replace(".", "")
StripSeparators(s) == SelectSeq(s, LAMBDA c : c \notin {",", "."})

----------------------------------------------------------------------------
(* Payment matcher: the scan of the transaction list in check_mb_payment   *)

DAY == 86400          \* timedelta(hours=24), in seconds
BadDate == 0 - 1      \* a transactionDate strptime cannot parse

\* TxPasses with an amount that may be off by one
TxPasses_Rounded(tx, amount, code_upper, t) ==
    LET credit == ParseInt(StripSeparators(tx.amount))
    IN /\ tx.type = "IN"
       /\ credit.ok
       /\ credit.val - amount \in {0 - 1, 0, 1}
       /\ Contains(upper(tx.description), code_upper)
       /\ tx.transactionDate # BadDate
       /\ ~(t - tx.transactionDate >= DAY)

\* TxPasses with the age compared by > instead of >=
TxPasses_Inclusive(tx, amount, code_upper, t) ==
    LET credit == ParseInt(StripSeparators(tx.amount))
    IN /\ tx.type = "IN"
       /\ credit.ok
       /\ credit.val = amount
       /\ Contains(upper(tx.description), code_upper)
       /\ tx.transactionDate # BadDate
       /\ ~(t - tx.transactionDate > DAY)

TxPasses(tx, amount, code_upper, t) ==
    LET credit == ParseInt(StripSeparators(tx.amount))
    IN /\ tx.type = "IN"
       /\ credit.ok
       /\ credit.val = amount
       /\ Contains(upper(tx.description), code_upper)
       /\ tx.transactionDate # BadDate
       /\ ~(t - tx.transactionDate >= DAY)

\* FindTx whose scan ends at the first transaction it cannot parse
FindTx_StopAtUnparsed(transactions, amount, code_order, t) ==
    LET unparsed == {i \in 1..Len(transactions) :
                        \/ ~ParseInt(StripSeparators(transactions[i].amount)).ok
                        \/ transactions[i].transactionDate = BadDate}
        hits == {i \in 1..Len(transactions) :
                    /\ TxPasses(transactions[i], amount, upper(code_order), t)
                    /\ \A j \in unparsed : i < j}
    IN IF hits = {} THEN 0
       ELSE CHOOSE i \in hits : \A j \in hits : i <= j

\* index of the first transaction that passes, 0 when none does
FindTx(transactions, amount, code_order, t) ==
    LET hits == {i \in 1..Len(transactions) :
                    TxPasses(transactions[i], amount, upper(code_order), t)}
    IN IF hits = {} THEN 0
       ELSE CHOOSE i \in hits : \A j \in hits : i <= j

----------------------------------------------------------------------------
(* Coupons (coupons.json, functions of app.py) and the promo_codes table   *)

NoExpiry == 0 - 1     \* the coupon has no expires_at; the row's is NULL

\* the two ways an expires_at text is written: by the format is_coupon_valid
\* parses, '%Y-%m-%d %H:%M:%S', and as a date alone, '%Y-%m-%d'
FullFormat == "%Y-%m-%d %H:%M:%S"
DateOnly == "%Y-%m-%d"

\* datetime.strptime(coupon['expires_at'], fmt): the time, or an exception
\* when the text is in another format or is None
strptime(coupon, fmt) ==
    IF coupon.expires_at # NoExpiry /\ coupon.expires_fmt = fmt
    THEN [ok |-> TRUE, val |-> coupon.expires_at]
    ELSE [ok |-> FALSE, val |-> 0]

is_coupon_valid(code, period, t) ==
    IF code \notin DOMAIN coupons THEN "not_exist"
    ELSE LET coupon == coupons[code]
         IN IF strptime(coupon, FullFormat).ok
               /\ t > strptime(coupon, FullFormat).val
            THEN "expired"
            ELSE IF coupon.type = "limited" /\ coupon.uses_left <= 0
            THEN "no_uses"
            ELSE IF coupon.types # {} /\ period \notin coupon.types
            THEN "not_applicable"
            ELSE "valid"

use_coupon(cs, code) ==
    IF code \notin DOMAIN cs THEN cs
    ELSE IF cs[code].type = "limited"
    THEN [cs EXCEPT ![code].uses_left =
                        IF @ - 1 > 0 THEN @ - 1 ELSE 0]
    ELSE cs

\* TRUE when get_promo returns the row
get_promo(code, t) ==
    /\ code \in DOMAIN promo_codes
    /\ ~(promo_codes[code].expires_at # NoExpiry
         /\ t > promo_codes[code].expires_at)
    /\ promo_codes[code].uses_left # 0

decrement_promo(ps, code) ==
    IF code \in DOMAIN ps THEN [ps EXCEPT ![code].uses_left = @ - 1] ELSE ps

----------------------------------------------------------------------------
(* Orders *)

Uids == {"U1", "U2"}
\* generate_verification_code: here the code is fixed by the uid
VCodeOf == [u \in Uids |-> IF u = "U1" THEN <<"A", "7">> ELSE <<"B", "7">>]

\* created_at defaults to CURRENT_TIMESTAMP, the clock at the insert
NewOrder(uid) == [email |-> None, key |-> None,
                  verification_code |-> VCodeOf[uid],
                  promo_code |-> None, paid |-> 0, created_at |-> now]

\* INSERT OR IGNORE INTO orders
insert_order(os, uid) ==
    IF uid \in DOMAIN os THEN os ELSE Put(os, uid, NewOrder(uid))

\* UPDATE orders SET paid=1 WHERE uid=?
mark_paid(os, uid) ==
    IF uid \in DOMAIN os THEN [os EXCEPT ![uid].paid = 1] ELSE os

\* UPDATE orders SET email=?, key=?, promo_code=? WHERE uid=?
set_email_key(os, uid, email, key, promo_code) ==
    IF uid \in DOMAIN os
    THEN [os EXCEPT ![uid].email = email, ![uid].key = key,
                    ![uid].promo_code = promo_code]
    ELSE os

----------------------------------------------------------------------------
(* Key pool: count, draw *)

count_keys(file) == Len(SelectSeq(file, NonBlank))

get_key_from_file(file) == IF Len(file) = 0 THEN None ELSE file[1]

----------------------------------------------------------------------------
(* Retire: delete_key_from_file and its remote variant.                    *)
(* f says which of the calls of this run fail:                             *)
(*   f.files  pool files whose read or rewrite fails (at most one a run)   *)
(*   f.sread  the read of the remote solved log succeeds                   *)
(*   f.swrite the write of (append to) the solved log succeeds             *)

Failures == [files : {{}} \cup {{p} : p \in Periods},
             sread : BOOLEAN, swrite : BOOLEAN]
NoFailure == [files |-> {}, sread |-> TRUE, swrite |-> TRUE]

SolvedEntry(key, t, email) == [key |-> key, ts |-> t, email |-> email]

RemoveLines(file, key) == SelectSeq(file, LAMBDA line : line # key)

RemoteRemove(file, key) ==
    LET lines == SelectSeq(file, NonBlank)
    IN IF key \in Range(lines) THEN RemoveLines(lines, key) ELSE file

delete_key_and_save_solved(st, key, email, t, f) ==
    LET current_content == IF f.sread THEN st.rsolved ELSE <<>>
        new_content == Append(current_content, SolvedEntry(key, t, email))
    IN [st EXCEPT
          !.rpool = [p \in Periods |->
                       IF p \in f.files THEN st.rpool[p]
                       ELSE RemoteRemove(st.rpool[p], key)],
          !.rsolved = IF f.swrite THEN new_content ELSE st.rsolved,
          !.ret = TRUE]

LocalDelete(st, key, email, t, f) ==
    IF f.swrite
    THEN [st EXCEPT
            !.pool = [p \in Periods |->
                        IF p \in f.files THEN st.pool[p]
                        ELSE RemoveLines(st.pool[p], key)],
            !.solved = Append(st.solved, SolvedEntry(key, t, email)),
            !.ret = TRUE]
    ELSE [st EXCEPT
            !.pool = [p \in Periods |->
                        IF p \in f.files THEN st.pool[p]
                        ELSE RemoveLines(st.pool[p], key)],
            !.ret = FALSE]

delete_key_from_file(st, key, email, t, f) ==
    IF key = Blank \/ key = None
    THEN [st EXCEPT !.ret = FALSE]
    ELSE IF use_github
         THEN delete_key_and_save_solved(st, key, email, t, f)
         ELSE LocalDelete(st, key, email, t, f)

KeyState == [pool |-> pool, rpool |-> rpool, solved |-> solved,
             rsolved |-> rsolved, ret |-> FALSE]

----------------------------------------------------------------------------
(* Operations on the key store *)

\* POST /admin/api/keys/<period>: append the key to the local pool file
admin_api_add_key(period, key) ==
    /\ TotalLines(pool, Periods) < MaxLines
    /\ pool' = [pool EXCEPT ![period] = Append(@, key)]
    /\ UNCHANGED <<use_github, extVars, rpool, solved, rsolved, now, resp>>
    /\ UNCHANGED shopVars
    /\ UNCHANGED thrVars

\* chat bot, step waiting_keys: add to the remote file when enabled (the
\* call may fail), always append to the local file
process_keys(period, key, remote_ok) ==
    /\ TotalLines(pool, Periods) < MaxLines
    /\ TotalLines(rpool, Periods) < MaxLines
    /\ rpool' = IF use_github /\ remote_ok
                THEN [rpool EXCEPT ![period] = Append(@, key)]
                ELSE rpool
    /\ pool' = [pool EXCEPT ![period] = Append(@, key)]
    /\ UNCHANGED <<use_github, extVars, solved, rsolved, now, resp>>
    /\ UNCHANGED shopVars
    /\ UNCHANGED thrVars

\* DELETE /admin/api/keys/<period>/<key>: delete_key -> delete_key_from_file
admin_api_delete_key(key, admin_email, f) ==
    LET r == delete_key_from_file(KeyState, key, admin_email, now, f)
    IN /\ Len(solved) < MaxSolved
       /\ Len(rsolved) < MaxSolved
       /\ pool' = r.pool
       /\ rpool' = r.rpool
       /\ solved' = r.solved
       /\ rsolved' = r.rsolved
       /\ resp' = IF r.ret THEN Resp("delete_key", "ok", "")
                           ELSE Resp("delete_key", "error", "not_deleted")
       /\ UNCHANGED <<use_github, extVars, now>>
       /\ UNCHANGED shopVars
       /\ UNCHANGED thrVars

\* generate_key(period): the draw, get_key_from_file of the period's file
generate_key(period) ==
    /\ resp' = Resp("generate_key", "ok", get_key_from_file(pool[period]))
    /\ UNCHANGED <<use_github, extVars, now>>
    /\ UNCHANGED keyVars
    /\ UNCHANGED shopVars
    /\ UNCHANGED thrVars

----------------------------------------------------------------------------
(* The key store alone.  A pool file starts with any lines (keys, blank     *)
(* lines, the same key twice: neither add operation looks for duplicates), *)
(* the remote mirror in step with the local files.                         *)

PoolFiles == SeqsUpTo(Keys \cup {Blank}, MaxLines)

PoolStores == {files \in [Periods -> PoolFiles] :
                  TotalLines(files, Periods) <= MaxLines}

InitLogs == {<<>>}

InitShopIdle ==
    /\ issued = {}
    /\ orders = Empty
    /\ coupons = Empty
    /\ promo_codes = Empty
    /\ sent = <<>>
    /\ dlog = <<>>

InitThreadsIdle ==
    /\ pc = <<>>
    /\ buf = <<>>

\* nobody has asked for a login code
InitOtpIdle ==
    /\ otp_storage = Empty
    /\ email_send_tracking = Empty
    /\ otp_requests = [e \in Emails |-> <<>>]
    /\ otp_mails = [e \in Emails |-> <<>>]

\* no browser holds a session; the lifetime is the one set at start-up
InitSessIdle ==
    /\ session = <<>>
    /\ lifetime_cfg = "24h"
    /\ req = <<>>

\* no dialogue with the chat bot is open
InitBotIdle == user_states = Empty

\* no bank reply is being scanned
InitMatchIdle ==
    /\ bank_reply = <<>>
    /\ expected = [amount |-> 0, code |-> <<>>]
    /\ found_tx = 0

InitKeys ==
    /\ use_github \in BOOLEAN
    /\ pool \in PoolStores
    /\ rpool = pool
    /\ solved \in InitLogs
    /\ rsolved = solved
    /\ now = 0
    /\ resp = NoResp
    /\ InitShopIdle
    /\ InitThreadsIdle
    /\ InitOtpIdle
    /\ InitBotIdle
    /\ InitSessIdle
    /\ InitMatchIdle

NextKeys ==
    \/ \E k \in Keys, e \in AdminEmails, f \in Failures :
           admin_api_delete_key(k, e, f)
    \/ \E p \in Periods : generate_key(p)

SpecKeys == InitKeys /\ [][NextKeys]_vars

\* the solved log the retire path in use writes
SolvedLog == IF use_github THEN rsolved ELSE solved

\* C8: for every period P and key k drawn from P (k is the first line of
\* P's pool and stands there once), after a retire of k in which no call
\* fails count(P) is one less than before and k is in no pool file.
C8_RetireDropsOneKey ==
    [][\A k \in Keys, e \in AdminEmails :
          admin_api_delete_key(k, e, NoFailure) =>
             \A p \in Periods :
                (get_key_from_file(pool[p]) = k /\ Occurrences(pool[p], k) = 1)
                => /\ count_keys(pool'[p]) = count_keys(pool[p]) - 1
                   /\ \A q \in Periods : k \notin Range(pool'[q])]_vars

\* C9: after each retire(k) that returns true the solved log holds exactly
\* one more line than before, and that line is k with the time and the email.
C9_RetireAppendsOneLine ==
    [][\A k \in Keys, e \in AdminEmails, f \in Failures :
          (admin_api_delete_key(k, e, f) /\ resp'.status = "ok") =>
             SolvedLog' = Append(SolvedLog, SolvedEntry(k, now, e))]_vars

\* C10: retire(key) returns true whenever the append to the solved log
\* succeeds, also when the key is in no pool, and false when it fails.
C10_RetireReturnsAppendResult ==
    [][\A k \in Keys, e \in AdminEmails, f \in Failures :
          admin_api_delete_key(k, e, f) =>
             (resp'.status = "ok") = f.swrite]_vars

\* the unsold keys of a pool file, in file order
Unsold(file) == SelectSeq(file, NonBlank)

\* C11: a draw returns the first unsold key of the period's pool and
\* changes no pool and no log, and it returns None exactly when the
\* period's count is 0.
C11_DrawPeeksFirstUnsold ==
    [][\A p \in Periods :
          generate_key(p) =>
             /\ UNCHANGED <<pool, rpool, solved, rsolved>>
             /\ ((resp'.reason = None) <=> (count_keys(pool[p]) = 0))
             /\ count_keys(pool[p]) > 0
                => resp'.reason = Unsold(pool[p])[1]]_vars

----------------------------------------------------------------------------
(* Two threads in delete_key_from_file on the local files, statement by    *)
(* statement.  The loop over key_files reads a file, and when the key is   *)
(* in it opens the file for writing (which empties it) and writes the kept *)
(* lines; then the solved line is appended.  The code takes no lock here:  *)
(* get_file_lock is used by count_keys and get_key_from_file only.         *)

Threads == {1, 2}
RaceFile == <<"K1", "K2", "K3">>
RaceKey == [t \in Threads |-> RaceFile[t]]

AfterFile(i) ==
    IF i < Len(key_files) THEN [step |-> "read", file |-> i + 1]
    ELSE [step |-> "append", file |-> i]

\* with open(full_path, "r"): lines = f.readlines(); found_indices
ReadFile(t) ==
    LET i == pc[t].file
        p == key_files[i]
    IN /\ pc[t].step = "read"
       /\ buf' = [buf EXCEPT ![t] = pool[p]]
       /\ pc' = [pc EXCEPT ![t] = IF RaceKey[t] \in Range(pool[p])
                                  THEN [step |-> "open", file |-> i]
                                  ELSE AfterFile(i)]
       /\ UNCHANGED <<use_github, extVars, now, resp>>
       /\ UNCHANGED keyVars
       /\ UNCHANGED shopVars

\* with open(full_path, "w"): the file is truncated
OpenForWrite(t) ==
    LET p == key_files[pc[t].file]
    IN /\ pc[t].step = "open"
       /\ pool' = [pool EXCEPT ![p] = <<>>]
       /\ pc' = [pc EXCEPT ![t].step = "write"]
       /\ UNCHANGED <<use_github, extVars, rpool, solved, rsolved, now, resp,
                    buf>>
       /\ UNCHANGED shopVars

\* f.writelines(new_lines)
WriteLines(t) ==
    LET i == pc[t].file
        p == key_files[i]
    IN /\ pc[t].step = "write"
       /\ pool' = [pool EXCEPT ![p] = RemoveLines(buf[t], RaceKey[t])]
       /\ pc' = [pc EXCEPT ![t] = AfterFile(i)]
       /\ UNCHANGED <<use_github, extVars, rpool, solved, rsolved, now, resp,
                    buf>>
       /\ UNCHANGED shopVars

\* with open(solved_file, "a"): one line; return True
AppendSolved(t) ==
    /\ pc[t].step = "append"
    /\ solved' = Append(solved, SolvedEntry(RaceKey[t], now, Blank))
    /\ pc' = [pc EXCEPT ![t].step = "done"]
    /\ UNCHANGED <<use_github, extVars, pool, rpool, rsolved, now, resp, buf>>
    /\ UNCHANGED shopVars

InitRace ==
    /\ use_github = FALSE
    /\ \E other \in {<<>>, <<"K1">>, <<"K2", "K1">>} :
           pool = [p \in Periods |->
                     IF p = key_files[1] THEN RaceFile ELSE other]
    /\ rpool = pool
    /\ solved = <<>>
    /\ rsolved = <<>>
    /\ now = 0
    /\ resp = NoResp
    /\ InitShopIdle
    /\ pc = [t \in Threads |-> [step |-> "read", file |-> 1]]
    /\ buf = [t \in Threads |-> <<>>]
    /\ InitMatchIdle
    /\ InitOtpIdle
    /\ InitBotIdle
    /\ InitSessIdle

NextRace ==
    \E t \in Threads :
        \/ ReadFile(t)
        \/ OpenForWrite(t)
        \/ WriteLines(t)
        \/ AppendSolved(t)

SpecRace == InitRace /\ [][NextRace]_vars

BothRetired == \A t \in Threads : pc[t].step = "done"

\* C7: when two retire operations for different keys of one pool file run
\* concurrently, after both finish neither key is in a pool and every
\* other key of the pool is still there, under every interleaving.
C7_ConcurrentRetiresBothRemoved ==
    BothRetired =>
        /\ \A t \in Threads, p \in Periods : RaceKey[t] \notin Range(pool[p])
        /\ "K3" \in Range(pool[key_files[1]])

----------------------------------------------------------------------------
(* The shop: GET /, POST /check_mb_payment, and the dashboard and chat-bot *)
(* operations on orders and keys.  Each handler is one step.               *)

MaxUses == 1        \* uses_left of a discount code at the start

Amounts == {1000}
PromoInputs == {Blank, "SAVE", "NOPE"}

\* the transaction the bank lists for a transfer to order uid made at time t
TxFor(uid, t) ==
    [type |-> "IN", amount |-> <<"1", ".", "0", "0", "0">>,
     description |-> <<"x">> \o VCodeOf[uid], transactionDate |-> t]

BankReplies(t) == {<<>>} \cup {<<TxFor(u, t)>> : u \in Uids}

\* the stock at the start: two keys of one period; one key listed under
\* both periods; a file that starts with a blank line
ShopPools ==
    {[p \in Periods |-> IF p = "1d" THEN <<"K1", "K2">> ELSE <<>>],
     [p \in Periods |-> <<"K1">>],
     [p \in Periods |-> IF p = "1d" THEN <<Blank, "K1">> ELSE <<"K2">>]}

\* what can fail in the retire of a fulfilment: nothing, the solved-log
\* write, the rewrite of the first pool file
ShopFailures ==
    {NoFailure,
     [files |-> {}, sread |-> TRUE, swrite |-> FALSE],
     [files |-> {key_files[1]}, sread |-> TRUE, swrite |-> TRUE]}

shopStores == <<pool, rpool, solved, rsolved, orders, coupons, promo_codes,
                sent, dlog>>

\* GET /: a new order under a uid not generated before (a uid that is in
\* the table already changes nothing: INSERT OR IGNORE)
index(uid) ==
    /\ uid \notin issued
    /\ issued' = issued \cup {uid}
    /\ orders' = insert_order(orders, uid)
    /\ UNCHANGED <<use_github, extVars, coupons, promo_codes, sent, dlog,
                   now, resp>>
    /\ UNCHANGED keyVars
    /\ UNCHANGED thrVars

\* an early return of check_mb_payment with an error
Reject(reason) ==
    /\ resp' = Resp("check_mb_payment", "error", reason)
    /\ UNCHANGED shopStores

\* the success response of check_mb_payment: the key and the discount
Delivered(key, discount_percent) ==
    [op |-> "check_mb_payment", status |-> "ok", reason |-> "sent",
     key |-> key, discount_percent |-> discount_percent]

\* app.py 1538-1584: the steps after the email was accepted
Finalize(uid, email, period_code, promo_code, key, new_system, old_system, f) ==
    LET r == delete_key_from_file(KeyState, key, email, now, f)
        discount_percent == IF new_system THEN coupons[promo_code].discount
                            ELSE IF old_system
                            THEN promo_codes[promo_code].discount
                            ELSE 0
    IN /\ sent' = Append(sent, [uid |-> uid, email |-> email, key |-> key])
       /\ orders' = mark_paid(set_email_key(orders, uid, email, key,
                                            promo_code), uid)
       /\ dlog' = Append(dlog, [uid |-> uid, email |-> email, key |-> key,
                                period |-> period_code, status |-> "sent"])
       /\ pool' = r.pool
       /\ rpool' = r.rpool
       /\ solved' = r.solved
       /\ rsolved' = r.rsolved
       /\ coupons' = IF new_system THEN use_coupon(coupons, promo_code)
                     ELSE coupons
       /\ promo_codes' = IF old_system
                         THEN decrement_promo(promo_codes, promo_code)
                         ELSE promo_codes
       /\ resp' = Delivered(key, discount_percent)

\* PriceDrawSend with the key retired from the pool before the email is sent
PriceDrawSend_RetireFirst(uid, email, period_code, promo_code) ==
    LET new_system == promo_code # Blank
                      /\ is_coupon_valid(promo_code, period_code, now) = "valid"
        old_system == promo_code # Blank /\ ~new_system
                      /\ get_promo(promo_code, now)
        key == get_key_from_file(pool[period_code])
    IN IF promo_code # Blank /\ ~new_system /\ ~old_system
       THEN Reject("invalid_coupon")
       ELSE IF key = None \/ key = Blank
       THEN Reject("no_key")
       ELSE \E mail_ok \in BOOLEAN :
               IF ~mail_ok
               THEN LET r == delete_key_from_file(KeyState, key, email, now,
                                                  NoFailure)
                    IN /\ pool' = r.pool
                       /\ rpool' = r.rpool
                       /\ solved' = r.solved
                       /\ rsolved' = r.rsolved
                       /\ resp' = Resp("check_mb_payment", "error",
                                       "email_failed")
                       /\ UNCHANGED <<orders, coupons, promo_codes, sent,
                                      dlog>>
               ELSE \E f \in ShopFailures :
                       Finalize(uid, email, period_code, promo_code, key,
                                new_system, old_system, f)

\* PriceDrawSend with the discount code redeemed as soon as it validates
PriceDrawSend_RedeemFirst(uid, email, period_code, promo_code) ==
    LET new_system == promo_code # Blank
                      /\ is_coupon_valid(promo_code, period_code, now) = "valid"
        old_system == promo_code # Blank /\ ~new_system
                      /\ get_promo(promo_code, now)
        key == get_key_from_file(pool[period_code])
    IN IF promo_code # Blank /\ ~new_system /\ ~old_system
       THEN Reject("invalid_coupon")
       ELSE IF key = None \/ key = Blank
       THEN /\ coupons' = IF new_system THEN use_coupon(coupons, promo_code)
                          ELSE coupons
            /\ promo_codes' = IF old_system
                              THEN decrement_promo(promo_codes, promo_code)
                              ELSE promo_codes
            /\ resp' = Resp("check_mb_payment", "error", "no_key")
            /\ UNCHANGED <<pool, rpool, solved, rsolved, orders, sent, dlog>>
       ELSE \E mail_ok \in BOOLEAN :
               IF ~mail_ok THEN Reject("email_failed")
               ELSE \E f \in ShopFailures :
                       Finalize(uid, email, period_code, promo_code, key,
                                new_system, old_system, f)

\* PriceDrawSend that goes on at full price when the code validates nowhere
PriceDrawSend_FullPrice(uid, email, period_code, promo_code) ==
    LET new_system == promo_code # Blank
                      /\ is_coupon_valid(promo_code, period_code, now) = "valid"
        old_system == promo_code # Blank /\ ~new_system
                      /\ get_promo(promo_code, now)
        key == get_key_from_file(pool[period_code])
    IN IF key = None \/ key = Blank
       THEN Reject("no_key")
       ELSE \E mail_ok \in BOOLEAN :
               IF ~mail_ok THEN Reject("email_failed")
               ELSE \E f \in ShopFailures :
                       Finalize(uid, email, period_code, promo_code, key,
                                new_system, old_system, f)

\* app.py 1494-1536: discount, key draw, email
PriceDrawSend(uid, email, period_code, promo_code) ==
    LET new_system == promo_code # Blank
                      /\ is_coupon_valid(promo_code, period_code, now) = "valid"
        old_system == promo_code # Blank /\ ~new_system
                      /\ get_promo(promo_code, now)
        key == get_key_from_file(pool[period_code])
    IN IF promo_code # Blank /\ ~new_system /\ ~old_system
       THEN Reject("invalid_coupon")
       ELSE IF key = None \/ key = Blank
       THEN Reject("no_key")
       ELSE \E mail_ok \in BOOLEAN :
               IF ~mail_ok THEN Reject("email_failed")
               ELSE \E f \in ShopFailures :
                       Finalize(uid, email, period_code, promo_code, key,
                                new_system, old_system, f)

\* POST /check_mb_payment
check_mb_payment(uid, email, period_code, amount, promo_code) ==
    /\ IF email = Blank THEN Reject("missing")
       ELSE IF uid \notin DOMAIN orders THEN Reject("unknown_order")
       ELSE IF orders[uid].paid = 1
       THEN /\ resp' = Resp("check_mb_payment", "ok", "already_paid")
            /\ UNCHANGED shopStores
       ELSE \E bank_up \in BOOLEAN :
               IF ~bank_up THEN Reject("bank_error")
               ELSE \E transactions \in BankReplies(now) :
                       IF FindTx(transactions, amount,
                                 orders[uid].verification_code, now) = 0
                       THEN Reject("not_found")
                       ELSE PriceDrawSend(uid, email, period_code, promo_code)
    /\ UNCHANGED <<use_github, extVars, issued, now>>
    /\ UNCHANGED thrVars

\* POST /admin/api/orders/<uid>/approve
admin_api_approve_order(uid) ==
    /\ orders' = mark_paid(orders, uid)
    /\ UNCHANGED <<use_github, extVars, issued, coupons, promo_codes, sent,
                   dlog, now, resp>>
    /\ UNCHANGED keyVars
    /\ UNCHANGED thrVars

\* chat bot, callback approveorder_<uid>: mark_order_paid_db
handle_approve_order_callback(uid) ==
    /\ orders' = mark_paid(orders, uid)
    /\ UNCHANGED <<use_github, extVars, issued, coupons, promo_codes, sent,
                   dlog, now, resp>>
    /\ UNCHANGED keyVars
    /\ UNCHANGED thrVars

\* DELETE /admin/api/orders/<uid>
admin_api_delete_order(uid) ==
    /\ orders' = Drop(orders, uid)
    /\ UNCHANGED <<use_github, extVars, issued, coupons, promo_codes, sent,
                   dlog, now, resp>>
    /\ UNCHANGED keyVars
    /\ UNCHANGED thrVars

\* the code SAVE is a limited coupon and also a row of the old promo table
InitCoupons ==
    [c \in {"SAVE"} |-> [discount |-> 10, type |-> "limited",
                         uses_left |-> MaxUses, expires_at |-> NoExpiry,
                         expires_fmt |-> FullFormat, types |-> {}]]

InitPromos ==
    [c \in {"SAVE"} |-> [discount |-> 5, uses_left |-> MaxUses,
                         expires_at |-> NoExpiry]]

Init ==
    /\ use_github \in BOOLEAN
    /\ pool \in ShopPools
    /\ rpool = pool
    /\ solved = <<>>
    /\ rsolved = <<>>
    /\ issued = {}
    /\ orders = Empty
    /\ coupons = InitCoupons
    /\ promo_codes = InitPromos
    /\ sent = <<>>
    /\ dlog = <<>>
    /\ now = DAY
    /\ resp = NoResp
    /\ InitThreadsIdle
    /\ InitOtpIdle
    /\ InitBotIdle
    /\ InitSessIdle
    /\ InitMatchIdle

Next ==
    \/ \E u \in Uids : index(u)
    \/ \E u \in Uids, e \in Emails \cup {Blank}, p \in Periods, a \in Amounts,
          c \in PromoInputs : check_mb_payment(u, e, p, a, c)
    \/ \E u \in Uids : admin_api_approve_order(u)
    \/ \E u \in Uids : handle_approve_order_callback(u)
    \/ \E u \in Uids : admin_api_delete_order(u)

Spec == Init /\ [][Next]_vars

----------------------------------------------------------------------------
(* Properties of fulfilment, checked under Spec *)

Requests == Uids \X (Emails \cup {Blank}) \X Periods \X Amounts \X PromoInputs

\* the emails the provider accepted for order uid
SentTo(uid) == {i \in DOMAIN sent : sent[i].uid = uid}

Attached(os, uid) == os[uid].email # None \/ os[uid].key # None

\* C1: no key is emailed to two different orders, and a key that is still
\* in a period pool has not been emailed to any order.
C1_NoKeyDeliveredTwice ==
    /\ \A i, j \in DOMAIN sent :
          sent[i].key = sent[j].key => sent[i].uid = sent[j].uid
    /\ \A i \in DOMAIN sent, p \in Periods : sent[i].key \notin Range(pool[p])

\* C2: an order is paid, or has an email or key attached, only if a
\* delivery email for it was accepted before; this covers the approve
\* actions of the dashboard and the chat bot.
C2_PaidOnlyAfterSend ==
    \A u \in DOMAIN orders :
        (orders[u].paid = 1 \/ Attached(orders, u)) => SentTo(u) # {}

\* C3: once a fulfilment request for uid U has sent its email, every later
\* fulfilment request for U returns success and changes nothing.
C3_SuccessAfterSuccess ==
    [][\A r \in Requests :
          (check_mb_payment(r[1], r[2], r[3], r[4], r[5])
             /\ r[2] # Blank /\ SentTo(r[1]) # {})
          => (resp'.status = "ok" /\ UNCHANGED shopStores)]_vars

\* C4: when the email provider rejects the delivery email, the request ends
\* with an error and no store has changed: the drawn key is in its pool,
\* the solved log, the order, the coupons and the promo table are as
\* before, and the same request would draw the same key again.
C4_EmailFailureChangesNothing ==
    [][\A r \in Requests :
          (check_mb_payment(r[1], r[2], r[3], r[4], r[5])
             /\ resp'.reason = "email_failed")
          => /\ resp'.status = "error"
             /\ UNCHANGED shopStores
             /\ get_key_from_file(pool[r[3]]) \in Keys
             /\ get_key_from_file(pool'[r[3]]) = get_key_from_file(pool[r[3]])
             /\ orders'[r[1]].paid = 0
             /\ ~Attached(orders', r[1])]_vars

C4_Witness ==
    /\ resp.reason = "email_failed"
    /\ \E u \in DOMAIN orders, p \in Periods :
          orders[u].paid = 0 /\ get_key_from_file(pool[p]) \in Keys

FailReasons == {"unknown_order", "not_found", "bank_error", "invalid_coupon",
                "no_key"}

\* C5: a fulfilment request that ends because the order is unknown, no
\* transaction matches, the bank call fails, the code is invalid or the
\* pool is empty leaves the orders, the pools, the solved log, the coupons,
\* the promo table and the delivery log as they were.
C5_FailedRequestChangesNothing ==
    [][\A r \in Requests :
          (check_mb_payment(r[1], r[2], r[3], r[4], r[5])
             /\ resp'.reason \in FailReasons)
          => (resp'.status = "error" /\ UNCHANGED shopStores)]_vars

C5_Witness ==
    /\ resp.reason = "no_key"
    /\ \E c \in DOMAIN coupons : coupons[c].uses_left > 0

InvalidEverywhere(code, period, t) ==
    /\ code # Blank
    /\ is_coupon_valid(code, period, t) # "valid"
    /\ ~get_promo(code, t)

\* C6: a request with a non-empty code that validates in neither the coupon
\* store nor the promo table sends no email and issues no key; once its
\* payment is found it ends with the invalid-code error, never with a draw.
C6_InvalidCodeNeverProceeds ==
    [][\A r \in Requests :
          (check_mb_payment(r[1], r[2], r[3], r[4], r[5])
             /\ InvalidEverywhere(r[5], r[3], now))
          => /\ UNCHANGED shopStores
             /\ resp'.reason \notin {"sent", "email_failed", "no_key"}
             /\ (resp'.status = "error" \/ resp'.reason = "already_paid")]_vars

C6_Witness ==
    /\ resp.reason = "invalid_coupon"
    /\ resp.status = "error"
    /\ sent = <<>>

----------------------------------------------------------------------------
(* The payment matcher alone: the scan of check_mb_payment over a bank     *)
(* reply of up to MaxTx transactions.                                      *)

MaxTx == 3
NotScanned == 0 - 1
ScanTime == 2 * DAY
OrderCode == VCodeOf["U1"]

\* a transfer that passes every filter: separators in the amount, the
\* code in lower case in the memo, one second inside the 24 hours
GoodTx(t) ==
    [type |-> "IN", amount |-> <<"1", ".", "0", "0", "0">>,
     description |-> <<"x", "a", "7">>, transactionDate |-> t - DAY + 1]

\* the transactions a reply is made of: GoodTx and its variations
SampleTxs(t) ==
    {GoodTx(t),
     [GoodTx(t) EXCEPT !.amount = <<"1", ",", "0", "0", "0">>,
                       !.transactionDate = t],
     [GoodTx(t) EXCEPT !.type = "OUT"],
     [GoodTx(t) EXCEPT !.amount = <<"1", ".", "0", "0", "1">>],
     [GoodTx(t) EXCEPT !.amount = <<"1", "k">>],
     [GoodTx(t) EXCEPT !.description = <<"x", "b", "7">>],
     [GoodTx(t) EXCEPT !.transactionDate = t - DAY],
     [GoodTx(t) EXCEPT !.transactionDate = BadDate]}

InitMatch ==
    /\ now = ScanTime
    /\ bank_reply \in SeqsUpTo(SampleTxs(ScanTime), MaxTx)
    /\ expected \in [amount : {1000, 1001}, code : {OrderCode}]
    /\ found_tx = NotScanned
    /\ use_github = FALSE
    /\ pool = [p \in Periods |-> <<>>]
    /\ rpool = pool
    /\ solved = <<>>
    /\ rsolved = <<>>
    /\ resp = NoResp
    /\ InitShopIdle
    /\ InitThreadsIdle
    /\ InitOtpIdle
    /\ InitBotIdle
    /\ InitSessIdle

\* app.py 1449-1492: the loop over the transactions
scan_transactions ==
    /\ found_tx = NotScanned
    /\ found_tx' = FindTx(bank_reply, expected.amount, expected.code, now)
    /\ UNCHANGED <<bank_reply, expected, now>>
    /\ UNCHANGED <<otpVars, sessVars>>
    /\ UNCHANGED coreVars

NextMatch == scan_transactions

SpecMatch == InitMatch /\ [][NextMatch]_vars

Scanned == found_tx # NotScanned

\* the four filters, as the matcher's contract words them
Inbound(tx) == tx.type = "IN"
AmountEquals(tx, amount) ==
    LET digits == SelectSeq(tx.amount, LAMBDA c : c \notin {",", "."})
    IN /\ Len(digits) > 0
       /\ \A i \in 1..Len(digits) : IsDigit(digits[i])
       /\ DigitsValue(digits) = amount
MemoHasCode(tx, code) ==
    \E i \in 1..Len(tx.description) :
        /\ i + Len(code) - 1 <= Len(tx.description)
        /\ \A j \in 1..Len(code) :
              upper_char(tx.description[i + j - 1]) = upper_char(code[j])
Recent(tx, t) ==
    tx.transactionDate # BadDate /\ t - tx.transactionDate < DAY
PassesAll(tx) ==
    /\ Inbound(tx)
    /\ AmountEquals(tx, expected.amount)
    /\ MemoHasCode(tx, expected.code)
    /\ Recent(tx, now)

\* C12: the matcher returns the first transaction of the reply, in the
\* reply's order, that is inbound, has the expected amount, has the code
\* in its memo whatever the case and is less than 24 hours old, and none
\* when no transaction passes; an unparsable one is passed over.
C12_FirstPassingTransaction ==
    Scanned =>
        /\ (found_tx = 0)
              <=> (\A i \in DOMAIN bank_reply : ~PassesAll(bank_reply[i]))
        /\ found_tx > 0 =>
              /\ PassesAll(bank_reply[found_tx])
              /\ \A j \in 1..(found_tx - 1) : ~PassesAll(bank_reply[j])

C12_Witness ==
    /\ found_tx = 3
    /\ ~ParseInt(StripSeparators(bank_reply[1].amount)).ok
    /\ bank_reply[2].transactionDate = BadDate

\* C13: a transaction is accepted only if its amount without ',' and '.'
\* is the expected integer exactly: "1.000" matches 1000, "1.001" does not.
C13_AmountMatchesExactly ==
    Scanned =>
        /\ found_tx > 0 => AmountEquals(bank_reply[found_tx], expected.amount)
        /\ \A i \in DOMAIN bank_reply :
              (bank_reply[i] = GoodTx(now) /\ expected.amount = 1000)
              => found_tx \in 1..i
        /\ \A i \in DOMAIN bank_reply :
              (bank_reply[i].amount = <<"1", ".", "0", "0", "1">>
                 /\ expected.amount = 1000)
              => found_tx # i

C13_Witness ==
    /\ found_tx = 2
    /\ expected.amount = 1000
    /\ bank_reply[1].amount = <<"1", ".", "0", "0", "1">>
    /\ bank_reply[2].amount = <<"1", ".", "0", "0", "0">>

\* C14: a transaction 24 hours old or older is rejected even when amount
\* and memo match: one stamped exactly 24 hours before now is rejected,
\* one stamped a second later is accepted.
C14_DayOldRejected ==
    Scanned =>
        /\ found_tx > 0 => now - bank_reply[found_tx].transactionDate < DAY
        /\ \A i \in DOMAIN bank_reply :
              bank_reply[i].transactionDate = now - DAY => found_tx # i
        /\ \A i \in DOMAIN bank_reply :
              (bank_reply[i] = GoodTx(now) /\ expected.amount = 1000)
              => found_tx \in 1..i

C14_Witness ==
    /\ found_tx = 2
    /\ bank_reply[1] = [GoodTx(now) EXCEPT !.transactionDate = now - DAY]
    /\ bank_reply[2].transactionDate = now - DAY + 1

----------------------------------------------------------------------------
(* Coupons alone: creation on the dashboard and in the chat bot, the clock *)
(* and POST /check_coupon.                                                 *)

MaxClock == 2
Codes == {"SAVE", "VIP"}
Unlimited == 999999

\* POST /admin/api/coupons: the expiry text is stored as the client sent it
admin_api_add_coupon(code, coupon_type, uses, expires_at, fmt) ==
    /\ code \notin DOMAIN coupons
    /\ coupons' = Put(coupons, code,
                      [discount |-> 10, type |-> coupon_type,
                       uses_left |-> IF coupon_type = "limited" THEN uses
                                     ELSE Unlimited,
                       expires_at |-> expires_at, expires_fmt |-> fmt,
                       types |-> {}])
    /\ UNCHANGED <<use_github, extVars, issued, orders, promo_codes, sent,
                   dlog, now, resp>>
    /\ UNCHANGED keyVars
    /\ UNCHANGED thrVars

\* chat bot, save_new_coupon_inline after process_coupon_code ..
\* handle_coupon_done_callback: no type field, the expiry a date or None
save_new_coupon_inline(code, uses, expires, types) ==
    /\ code \notin DOMAIN coupons
    /\ uses > 0
    /\ types # {}
    /\ coupons' = Put(coupons, code,
                      [discount |-> 10, type |-> None, uses_left |-> uses,
                       expires_at |-> expires, expires_fmt |-> DateOnly,
                       types |-> types])
    /\ UNCHANGED <<use_github, extVars, issued, orders, promo_codes, sent,
                   dlog, now, resp>>
    /\ UNCHANGED keyVars
    /\ UNCHANGED thrVars

\* POST /check_coupon
check_coupon(coupon_code, period) ==
    LET verdict == is_coupon_valid(coupon_code, period, now)
    IN /\ resp' = Resp("check_coupon",
                       IF verdict = "valid" THEN "ok" ELSE "error", verdict)
       /\ UNCHANGED <<use_github, extVars, now>>
       /\ UNCHANGED keyVars
       /\ UNCHANGED shopVars
       /\ UNCHANGED thrVars

\* time passes
Tick ==
    /\ now < MaxClock
    /\ now' = now + 1
    /\ UNCHANGED <<use_github, extVars, resp>>
    /\ UNCHANGED keyVars
    /\ UNCHANGED shopVars
    /\ UNCHANGED thrVars

InitCoupon ==
    /\ use_github = FALSE
    /\ pool = [p \in Periods |-> <<>>]
    /\ rpool = pool
    /\ solved = <<>>
    /\ rsolved = <<>>
    /\ now = 0
    /\ resp = NoResp
    /\ InitShopIdle
    /\ InitThreadsIdle
    /\ InitOtpIdle
    /\ InitBotIdle
    /\ InitSessIdle
    /\ InitMatchIdle

NextCoupon ==
    \/ \E c \in Codes, ty \in {"limited", "unlimited"}, u \in {0, 1},
          e \in {NoExpiry, 1}, fmt \in {FullFormat, DateOnly} :
           admin_api_add_coupon(c, ty, u, e, fmt)
    \/ \E c \in Codes, e \in {NoExpiry, 1}, ts \in SUBSET Periods :
           save_new_coupon_inline(c, 1, e, ts)
    \/ \E c \in Codes, p \in Periods : check_coupon(c, p)
    \/ Tick

SpecCoupon == InitCoupon /\ [][NextCoupon]_vars

\* the reason of the first failing check, in the order existence, expiry,
\* remaining uses, period
FirstFailingCheck(code, period, t) ==
    IF code \notin DOMAIN coupons THEN "not_exist"
    ELSE IF coupons[code].expires_at # NoExpiry
            /\ t > coupons[code].expires_at
    THEN "expired"
    ELSE IF coupons[code].type # "unlimited" /\ coupons[code].uses_left <= 0
    THEN "no_uses"
    ELSE IF coupons[code].types # {} /\ period \notin coupons[code].types
    THEN "not_applicable"
    ELSE "valid"

\* C15: validate(code, period) returns the reason of the first failing
\* check in the order existence, expiry, remaining uses, period; a coupon
\* whose expires_at is in the past is rejected whatever its uses_left,
\* whether it was created on the dashboard or in the chat bot.
C15_FirstFailingCheckWins ==
    [][\A c \in Codes, p \in Periods :
          check_coupon(c, p) => resp'.reason = FirstFailingCheck(c, p, now)]_vars

\* C16: the fulfilment that redeems a limited coupon with one use left
\* drops uses_left to 0 and removes the coupon from the active set, and
\* the coupon does not come back.
C16_LastUseArchivesCoupon ==
    [][\A r \in Requests :
          (check_mb_payment(r[1], r[2], r[3], r[4], r[5])
             /\ resp'.reason = "sent"
             /\ is_coupon_valid(r[5], r[3], now) = "valid"
             /\ coupons[r[5]].type = "limited"
             /\ coupons[r[5]].uses_left = 1)
          => r[5] \notin DOMAIN coupons']_vars

----------------------------------------------------------------------------
(* Admin login by emailed code: POST /admin/send-otp and its rate limit,   *)
(* POST /admin/verify-otp.  Time is in minutes.                            *)

OTP_EXPIRY_MINUTES == 10
MAX_OTP_ATTEMPTS == 5
EMAIL_SEND_LIMIT == 5
EMAIL_COOLDOWN_HOURS == 1
HOUR == 60

MaxMinutes == 62          \* the clock stops here
OtpCodes == {"111111", "222222"}
NoCooldown == 0 - 1       \* the tracking entry has no cooldown_until

\* the last n entries of a sequence
LastN(q, n) == IF Len(q) <= n THEN q ELSE SubSeq(q, Len(q) - n + 1, Len(q))

\* check_email_send_cooldown: the verdict and the tracking it leaves
check_email_send_cooldown(tr, email, t) ==
    IF email \notin DOMAIN tr THEN [cooldown |-> FALSE, tracking |-> tr]
    ELSE IF tr[email].cooldown_until # NoCooldown
            /\ t < tr[email].cooldown_until
    THEN [cooldown |-> TRUE, tracking |-> tr]
    ELSE IF t > tr[email].reset_time
    THEN [cooldown |-> FALSE,
          tracking |-> [tr EXCEPT ![email].count = 0,
                                  ![email].reset_time = t + HOUR]]
    ELSE [cooldown |-> FALSE, tracking |-> tr]

update_email_send_tracking(tr, email, t) ==
    LET tr1 == IF email \in DOMAIN tr THEN tr
               ELSE Put(tr, email, [count |-> 0, reset_time |-> t + HOUR,
                                    cooldown_until |-> NoCooldown])
        c == tr1[email].count + 1
    IN [tr1 EXCEPT ![email].count = c,
                   ![email].cooldown_until =
                       IF c >= EMAIL_SEND_LIMIT
                       THEN t + EMAIL_COOLDOWN_HOURS * HOUR ELSE @]

\* POST /admin/send-otp for an authorized email; otp is what generate_otp
\* draws, mail_ok whether the provider accepts the email
admin_send_otp(email, otp, mail_ok) ==
    LET chk == check_email_send_cooldown(email_send_tracking, email, now)
    IN /\ otp_requests' = [otp_requests EXCEPT
                              ![email] = LastN(Append(@, now), EMAIL_SEND_LIMIT)]
       /\ IF chk.cooldown
          THEN /\ resp' = Resp("admin_send_otp", "error", "cooldown")
               /\ email_send_tracking' = chk.tracking
               /\ UNCHANGED <<otp_storage, otp_mails>>
          ELSE /\ otp_storage' =
                     Put(Drop(otp_storage, email), email,
                         [code |-> otp, expires |-> now + OTP_EXPIRY_MINUTES,
                          attempts |-> 0])
               /\ IF mail_ok
                  THEN /\ email_send_tracking' =
                             update_email_send_tracking(chk.tracking, email,
                                                        now)
                       /\ otp_mails' = [otp_mails EXCEPT
                                           ![email] = LastN(Append(@, now),
                                                            EMAIL_SEND_LIMIT + 1)]
                       /\ resp' = Resp("admin_send_otp", "ok", "sent")
                  ELSE /\ email_send_tracking' = chk.tracking
                       /\ otp_mails' = otp_mails
                       /\ resp' = Resp("admin_send_otp", "error",
                                       "send_failed")
       /\ UNCHANGED <<now, matchVars, sessVars>>
       /\ UNCHANGED <<use_github, issued, orders, coupons, promo_codes, sent,
                      dlog, pc, buf, user_states>>
       /\ UNCHANGED keyVars

\* time passes: dt minutes
Wait(dt) ==
    /\ now + dt <= MaxMinutes
    /\ now' = now + dt
    /\ UNCHANGED <<extVars, resp>>
    /\ UNCHANGED <<use_github, issued, orders, coupons, promo_codes, sent,
                   dlog, pc, buf, user_states>>
    /\ UNCHANGED keyVars

Browsers == {"B1", "B2"}

\* verify_otp with the code compared before the attempts are looked at
verify_otp_CodeFirst(st, email, otp_code, t) ==
    IF email \notin DOMAIN st
    THEN [ok |-> FALSE, reason |-> "not_found", storage |-> st]
    ELSE IF t > st[email].expires
    THEN [ok |-> FALSE, reason |-> "expired", storage |-> Drop(st, email)]
    ELSE IF st[email].code = otp_code
    THEN [ok |-> TRUE, reason |-> "verified", storage |-> Drop(st, email)]
    ELSE IF st[email].attempts >= MAX_OTP_ATTEMPTS
    THEN [ok |-> FALSE, reason |-> "too_many", storage |-> Drop(st, email)]
    ELSE [ok |-> FALSE, reason |-> "invalid",
          storage |-> [st EXCEPT ![email].attempts = @ + 1]]

\* verify_otp: the verdict and the otp_storage it leaves
verify_otp(st, email, otp_code, t) ==
    IF email \notin DOMAIN st
    THEN [ok |-> FALSE, reason |-> "not_found", storage |-> st]
    ELSE IF t > st[email].expires
    THEN [ok |-> FALSE, reason |-> "expired", storage |-> Drop(st, email)]
    ELSE IF st[email].attempts >= MAX_OTP_ATTEMPTS
    THEN [ok |-> FALSE, reason |-> "too_many", storage |-> Drop(st, email)]
    ELSE IF st[email].code # otp_code
    THEN [ok |-> FALSE, reason |-> "invalid",
          storage |-> [st EXCEPT ![email].attempts = @ + 1]]
    ELSE [ok |-> TRUE, reason |-> "verified", storage |-> Drop(st, email)]

\* the session lifetime preference stored in the cookie
Preference(remember_me) == IF remember_me THEN "extended" ELSE "normal"

\* the cookie a login response sets: manage_session does not run for the
\* login routes, so its lifetime is the configured one as it stands
LoginCookie(email, remember_me) ==
    [admin_email |-> email, session_lifetime |-> Preference(remember_me),
     lifetime |-> lifetime_cfg]

\* POST /admin/verify-otp from browser b
admin_verify_otp(b, email, otp, remember_me) ==
    LET v == verify_otp(otp_storage, email, otp, now)
    IN /\ otp_storage' = v.storage
       /\ session' = IF v.ok
                     THEN Put(Drop(session, b), b,
                              LoginCookie(email, remember_me))
                     ELSE session
       /\ resp' = Resp("admin_verify_otp", IF v.ok THEN "ok" ELSE "error",
                       v.reason)
       /\ UNCHANGED <<now, matchVars, email_send_tracking, otp_requests,
                      otp_mails, lifetime_cfg, req>>
       /\ UNCHANGED <<use_github, issued, orders, coupons, promo_codes, sent,
                      dlog, pc, buf, user_states>>
       /\ UNCHANGED keyVars

InitOtp ==
    /\ use_github = FALSE
    /\ pool = [p \in Periods |-> <<>>]
    /\ rpool = pool
    /\ solved = <<>>
    /\ rsolved = <<>>
    /\ now = 0
    /\ resp = NoResp
    /\ InitShopIdle
    /\ InitThreadsIdle
    /\ InitOtpIdle
    /\ InitBotIdle
    /\ InitSessIdle
    /\ InitMatchIdle

NextOtp ==
    \/ \E e \in Emails, mail_ok \in BOOLEAN :
           admin_send_otp(e, "111111", mail_ok)
    \/ \E dt \in {30, 31} : Wait(dt)

SpecOtp == InitOtp /\ [][NextOtp]_vars

\* C17: when a login code is requested for one email six times within an
\* hour, the sixth request is rejected with the cooldown message, whatever
\* came of the five before it.
C17_SixthRequestRejected ==
    [][\A e \in Emails, mail_ok \in BOOLEAN :
          (admin_send_otp(e, "111111", mail_ok)
             /\ Len(otp_requests[e]) = EMAIL_SEND_LIMIT
             /\ now - otp_requests[e][1] < HOUR)
          => resp'.reason = "cooldown"]_vars

\* C18: in every interval of 60 minutes at most 5 login-code emails are
\* sent to one address: of six emails in a row the last is an hour or more
\* after the first.
C18_FivePerRollingHour ==
    \A e \in Emails :
        Len(otp_mails[e]) = EMAIL_SEND_LIMIT + 1
        => otp_mails[e][EMAIL_SEND_LIMIT + 1] - otp_mails[e][1] >= HOUR

----------------------------------------------------------------------------
(* Requesting a code and verifying it, minute by minute around the expiry  *)

MaxLogin == 12            \* minutes the login runs are followed

WaitLogin(dt) ==
    /\ now + dt <= MaxLogin
    /\ Wait(dt)

NextVerify ==
    \/ \E e \in Emails, otp \in OtpCodes, mail_ok \in BOOLEAN :
           admin_send_otp(e, otp, mail_ok)
    \/ \E e \in Emails, otp \in OtpCodes, rm \in BOOLEAN :
           admin_verify_otp("B1", e, otp, rm)
    \/ \E dt \in {5, 6} : WaitLogin(dt)

SpecVerify == InitOtp /\ [][NextVerify]_vars

Pending(e) == e \in DOMAIN otp_storage
InBudget(e) ==
    /\ Pending(e)
    /\ ~(now > otp_storage[e].expires)
    /\ otp_storage[e].attempts < MAX_OTP_ATTEMPTS

\* C19: a verification establishes a session exactly when the pending code
\* is supplied before its expiry has passed and after fewer than 5 wrong
\* attempts; a wrong code adds one to the attempts; once the attempts are
\* 5 or the expiry has passed the next verification removes the pending
\* code; with no pending code every verification fails, and only a new
\* request makes a code pending; a successful verification removes the code.
C19_VerifyWithinBudget ==
    [][/\ \A e \in Emails, otp \in OtpCodes, rm \in BOOLEAN :
             admin_verify_otp("B1", e, otp, rm) =>
                /\ (resp'.status = "ok")
                      <=> (InBudget(e) /\ otp = otp_storage[e].code)
                /\ resp'.status = "ok"
                      => /\ session'["B1"].admin_email = e
                         /\ e \notin DOMAIN otp_storage'
                /\ resp'.status # "ok" => session' = session
                /\ (InBudget(e) /\ otp # otp_storage[e].code)
                      => /\ e \in DOMAIN otp_storage'
                         /\ otp_storage'[e].attempts
                               = otp_storage[e].attempts + 1
                /\ (Pending(e) /\ ~InBudget(e))
                      => e \notin DOMAIN otp_storage'
                /\ ~Pending(e) => otp_storage' = otp_storage
       /\ \A e \in Emails :
             (~Pending(e) /\ e \in DOMAIN otp_storage')
                => resp'.op = "admin_send_otp"
       /\ session' # session => resp'.reason = "verified"]_vars

C19_Witness ==
    /\ resp.reason = "too_many"
    /\ otp_storage = Empty
    /\ session = <<>>

----------------------------------------------------------------------------
(* Session lifetime: the password login and the requests of logged-in      *)
(* browsers.  A request is two steps, manage_session before the handler    *)
(* and the writing of the cookie with the response; the server handles     *)
(* requests of different browsers in threads.                              *)

OwnerEmail == "a@x"

\* manage_session sets the configured lifetime from the session's own
\* preference
LifetimeOf(preference) == IF preference = "extended" THEN "60d" ELSE "24h"

sessFrame ==
    /\ UNCHANGED <<now, resp, matchVars, otpVars>>
    /\ UNCHANGED <<use_github, issued, orders, coupons, promo_codes, sent,
                   dlog, pc, buf, user_states>>
    /\ UNCHANGED keyVars

\* POST /admin/login-password with a password of the list
admin_login_password(b, remember_me) ==
    /\ req[b] = "idle"
    /\ session' = Put(Drop(session, b), b,
                      LoginCookie(OwnerEmail, remember_me))
    /\ UNCHANGED <<lifetime_cfg, req>>
    /\ sessFrame

\* before_request of a request of a logged-in browser
manage_session(b) ==
    /\ req[b] = "idle"
    /\ b \in DOMAIN session
    /\ lifetime_cfg' = LifetimeOf(session[b].session_lifetime)
    /\ req' = [req EXCEPT ![b] = "serving"]
    /\ UNCHANGED session
    /\ sessFrame

\* the response: the permanent session's cookie is written again, with the
\* lifetime configured at that moment
save_session(b) ==
    /\ req[b] = "serving"
    /\ session' = [session EXCEPT ![b].lifetime = lifetime_cfg]
    /\ req' = [req EXCEPT ![b] = "idle"]
    /\ UNCHANGED lifetime_cfg
    /\ sessFrame

InitSession ==
    /\ use_github = FALSE
    /\ pool = [p \in Periods |-> <<>>]
    /\ rpool = pool
    /\ solved = <<>>
    /\ rsolved = <<>>
    /\ now = 0
    /\ resp = NoResp
    /\ InitShopIdle
    /\ pc = <<>>
    /\ buf = <<>>
    /\ InitOtpIdle
    /\ InitBotIdle
    /\ InitMatchIdle
    /\ session = <<>>
    /\ lifetime_cfg = "24h"
    /\ req = [b \in Browsers |-> "idle"]

NextSession ==
    \E b \in Browsers :
        \/ \E rm \in BOOLEAN : admin_login_password(b, rm)
        \/ manage_session(b)
        \/ save_session(b)

SpecSession == InitSession /\ [][NextSession]_vars

\* C20: the cookie of a session with remember_me = false has a lifetime of
\* 24 hours and the cookie of one with remember_me = true has 60 days,
\* whatever other browsers ask for before or between.
C20_LifetimeFollowsOwnPreference ==
    \A b \in DOMAIN session :
        session[b].lifetime = LifetimeOf(session[b].session_lifetime)

----------------------------------------------------------------------------
(* The key store with the syncs from the remote repository.  Both syncs    *)
(* fetch each file over HTTP and, when the answer is 200, write its text   *)
(* over the local file; got is the set of files whose fetch succeeds.      *)

\* sync_keys.py: at start-up and every SYNC_INTERVAL seconds; of the key
\* files it names the four pool files (the log is not among them)
sync_keys_from_github(got) ==
    /\ pool' = [p \in Periods |-> IF p \in got THEN rpool[p] ELSE pool[p]]
    /\ UNCHANGED <<use_github, extVars, rpool, solved, rsolved, now, resp>>
    /\ UNCHANGED shopVars
    /\ UNCHANGED thrVars

\* bot.py, sync_data_by_type("keys"): the four pool files and key_solved.txt
sync_data_by_type(got, got_solved) ==
    /\ pool' = [p \in Periods |-> IF p \in got THEN rpool[p] ELSE pool[p]]
    /\ solved' = IF got_solved THEN rsolved ELSE solved
    /\ UNCHANGED <<use_github, extVars, rpool, rsolved, now, resp>>
    /\ UNCHANGED shopVars
    /\ UNCHANGED thrVars

NextSync ==
    \/ \E k \in Keys, e \in AdminEmails, f \in Failures :
           admin_api_delete_key(k, e, f)
    \/ \E got \in SUBSET Periods : sync_keys_from_github(got)
    \/ \E got \in SUBSET Periods, got_solved \in BOOLEAN :
           sync_data_by_type(got, got_solved)

SpecSync == InitKeys /\ [][NextSync]_vars

IsPrefix(s, t) == Len(s) <= Len(t) /\ SubSeq(t, 1, Len(s)) = s

\* C21: the solved log is append-only: no retire (local or remote) and no
\* sync removes or changes a line already in the log; each step leaves the
\* old log as a prefix of the new one.
C21_SolvedLogAppendOnly ==
    [][IsPrefix(solved, solved') /\ IsPrefix(rsolved, rsolved')]_vars

\* the keys that have a line in a solved log
Retired == {solved[i].key : i \in DOMAIN solved}
               \cup {rsolved[i].key : i \in DOMAIN rsolved}

\* C28: a sync never puts back into a local pool file a key that has a
\* line in the solved log, also when the retire was done on local files.
C28_SyncNeverRestoresRetiredKey ==
    [][(\/ \E got \in SUBSET Periods : sync_keys_from_github(got)
        \/ \E got \in SUBSET Periods, got_solved \in BOOLEAN :
               sync_data_by_type(got, got_solved))
       => \A k \in Retired, p \in Periods :
             k \in Range(pool'[p]) => k \in Range(pool[p])]_vars

----------------------------------------------------------------------------
(* The orders table with its clean-up operations.                          *)

MaxOrderAge == 1800       \* seconds the orders are followed
CleanupMinutes == {15}    \* settings cleanup_minutes, default 15

\* the rows DELETE ... WHERE paid = 0 AND created_at < cutoff removes
Stale(os, minutes, t) ==
    {u \in DOMAIN os : os[u].paid = 0 /\ os[u].created_at < t - 60 * minutes}

\* delete_pending_orders(minutes), called by auto_cleanup_worker and by
\* POST /admin/api/orders/cleanup; returns cursor.rowcount
delete_pending_orders(minutes) ==
    LET deleted == Stale(orders, minutes, now)
    IN /\ orders' = [u \in DOMAIN orders \ deleted |-> orders[u]]
       /\ resp' = [op |-> "delete_pending_orders", status |-> "ok",
                   reason |-> "", deleted_count |-> Cardinality(deleted)]
       /\ UNCHANGED <<use_github, extVars, issued, coupons, promo_codes, sent,
                      dlog, now>>
       /\ UNCHANGED keyVars
       /\ UNCHANGED thrVars

\* reset_all_orders: DELETE FROM orders (POST /admin/api/orders/reset and
\* POST /admin/api/clear-all-data)
reset_all_orders ==
    /\ orders' = Empty
    /\ UNCHANGED <<use_github, extVars, issued, coupons, promo_codes, sent,
                   dlog, now, resp>>
    /\ UNCHANGED keyVars
    /\ UNCHANGED thrVars

\* time passes: dt seconds
OrderWait(dt) ==
    /\ now + dt <= MaxOrderAge
    /\ now' = now + dt
    /\ UNCHANGED <<use_github, extVars, resp>>
    /\ UNCHANGED keyVars
    /\ UNCHANGED shopVars
    /\ UNCHANGED thrVars

InitOrders ==
    /\ use_github = FALSE
    /\ pool = [p \in Periods |-> <<>>]
    /\ rpool = pool
    /\ solved = <<>>
    /\ rsolved = <<>>
    /\ now = 0
    /\ resp = NoResp
    /\ InitShopIdle
    /\ InitThreadsIdle
    /\ InitOtpIdle
    /\ InitBotIdle
    /\ InitSessIdle
    /\ InitMatchIdle

NextOrders ==
    \/ \E u \in Uids : index(u)
    \/ \E u \in Uids : admin_api_approve_order(u)
    \/ \E u \in Uids : admin_api_delete_order(u)
    \/ \E m \in CleanupMinutes : delete_pending_orders(m)
    \/ reset_all_orders
    \/ \E dt \in {600} : OrderWait(dt)

SpecOrders == InitOrders /\ [][NextOrders]_vars

\* C22: an order leaves the table only by the age-based clean-up of unpaid
\* orders, which deletes exactly the orders with paid = 0 created before
\* the cutoff and returns their number; no step deletes a paid order.
C22_OnlyStaleUnpaidOrdersDeleted ==
    [][/\ \A u \in DOMAIN orders :
             u \notin DOMAIN orders'
                => /\ orders[u].paid = 0
                   /\ \E m \in CleanupMinutes :
                         /\ delete_pending_orders(m)
                         /\ u \in Stale(orders, m, now)
       /\ \A m \in CleanupMinutes :
             delete_pending_orders(m)
                => /\ DOMAIN orders' = DOMAIN orders \ Stale(orders, m, now)
                   /\ resp'.deleted_count
                         = Cardinality(Stale(orders, m, now))]_vars

----------------------------------------------------------------------------
(* Discount codes in fulfilment: a code of each kind.  SAVE is a limited   *)
(* coupon made on the dashboard and also a row of the promo table, BOT is  *)
(* a coupon made by the chat bot (uses_left set, no type field), OLD is a  *)
(* row of the promo table only.                                            *)

PromoCodes == {Blank, "SAVE", "BOT", "OLD", "NOPE"}

PromoCoupons ==
    [c \in {"SAVE", "BOT"} |->
        IF c = "SAVE"
        THEN [discount |-> 10, type |-> "limited", uses_left |-> MaxUses,
              expires_at |-> NoExpiry, expires_fmt |-> FullFormat,
              types |-> {}]
        ELSE [discount |-> 20, type |-> None, uses_left |-> MaxUses,
              expires_at |-> NoExpiry, expires_fmt |-> DateOnly,
              types |-> Periods]]

PromoRows ==
    [c \in {"SAVE", "OLD"} |-> [discount |-> 5, uses_left |-> MaxUses,
                                expires_at |-> NoExpiry]]

InitPromo ==
    /\ use_github = FALSE
    /\ pool = [p \in Periods |-> IF p = "1d" THEN <<"K1", "K2">> ELSE <<>>]
    /\ rpool = pool
    /\ solved = <<>>
    /\ rsolved = <<>>
    /\ issued = {}
    /\ orders = Empty
    /\ coupons = PromoCoupons
    /\ promo_codes = PromoRows
    /\ sent = <<>>
    /\ dlog = <<>>
    /\ now = DAY
    /\ resp = NoResp
    /\ InitThreadsIdle
    /\ InitOtpIdle
    /\ InitBotIdle
    /\ InitSessIdle
    /\ InitMatchIdle

NextPromo ==
    \/ \E u \in Uids : index(u)
    \/ \E u \in Uids, e \in Emails, p \in Periods, a \in Amounts,
          c \in PromoCodes : check_mb_payment(u, e, p, a, c)

SpecPromo == InitPromo /\ [][NextPromo]_vars

PromoRequests == Uids \X Emails \X Periods \X Amounts \X (PromoCodes \ {Blank})

\* C24: a supplied code is resolved against the coupon store first and
\* against the promo table only when the coupon store rejects it; the
\* discount applied is the one of the store that accepted the code, and
\* on success that store's uses_left drops by one and the other store is
\* unchanged.
C24_AcceptingStoreDecrementedOnce ==
    [][\A r \in PromoRequests :
          (check_mb_payment(r[1], r[2], r[3], r[4], r[5])
             /\ resp'.reason = "sent")
          => IF is_coupon_valid(r[5], r[3], now) = "valid"
             THEN /\ resp'.discount_percent = coupons[r[5]].discount
                  /\ coupons' = [coupons EXCEPT ![r[5]].uses_left = @ - 1]
                  /\ promo_codes' = promo_codes
             ELSE /\ get_promo(r[5], now)
                  /\ resp'.discount_percent = promo_codes[r[5]].discount
                  /\ promo_codes' = [promo_codes EXCEPT
                                        ![r[5]].uses_left = @ - 1]
                  /\ coupons' = coupons]_vars

----------------------------------------------------------------------------
(* The price table, data/prices/prices.json: here 1000 for a day and 7000  *)
(* for a week.                                                             *)

load_prices ==
    [p \in Periods |-> [amount |-> IF p = "1d" THEN 1000 ELSE 7000]]

get_price(period_code) ==
    IF period_code \in DOMAIN load_prices THEN load_prices[period_code].amount
    ELSE 0

\* C25: fulfilment issues a key of period P only when the amount matched
\* against the bank transaction (the matcher accepts a transaction only if
\* its amount equals the request's amount) is the configured price of P
\* reduced by the applied discount percent.
C25_KeyOnlyForConfiguredPrice ==
    [][\A r \in Requests :
          (check_mb_payment(r[1], r[2], r[3], r[4], r[5])
             /\ resp'.reason = "sent")
          => 100 * r[4] = get_price(r[3]) * (100 - resp'.discount_percent)]_vars

----------------------------------------------------------------------------
(* The chat bot's key deletion: the admin picks a period, the bot lists    *)
(* the period's keys as buttons and keeps the list in user_states; a       *)
(* button press deletes the key of that index.                             *)

Chats == {"C1"}

\* GitHubDataManager.list_keys of bot.py; read_ok is whether the read of
\* the remote file succeeds
list_keys(period, read_ok) ==
    IF use_github /\ read_ok THEN SelectSeq(rpool[period], NonBlank)
    ELSE <<>>

\* list.remove(x): the first occurrence
RemoveFirst(s, x) ==
    LET i == CHOOSE j \in 1..Len(s) : s[j] = x /\ \A h \in 1..(j - 1) : s[h] # x
    IN SubSeq(s, 1, i - 1) \o SubSeq(s, i + 1, Len(s))

\* callback delkey_<period>
handle_delkey_period_callback(chat_id, period, read_ok) ==
    LET remote == list_keys(period, read_ok)
        lines == IF remote # <<>> THEN remote
                 ELSE SelectSeq(pool[period], NonBlank)
    IN /\ user_states' =
             IF lines = <<>> THEN user_states
             ELSE Put(user_states, chat_id,
                      [step |-> "waiting_delete_key", period |-> period,
                       keys |-> lines])
       /\ UNCHANGED <<use_github, matchVars, otpVars, sessVars, now, resp>>
       /\ UNCHANGED keyVars
       /\ UNCHANGED shopVars
       /\ UNCHANGED thrVars

\* callback confirmdelkey_<key_index>; remote_ok is whether delete_key on
\* the remote file succeeds
handle_confirm_delkey_callback(chat_id, key_index, remote_ok) ==
    /\ IF chat_id \notin DOMAIN user_states
       THEN UNCHANGED <<pool, rpool, user_states>>
       ELSE LET period == user_states[chat_id].period
                keys == user_states[chat_id].keys
            IN IF key_index >= Len(keys)
               THEN UNCHANGED <<pool, rpool, user_states>>
               ELSE LET key_to_delete == keys[key_index + 1]
                    IN /\ rpool' = IF use_github /\ remote_ok
                                   THEN [rpool EXCEPT ![period] =
                                            RemoteRemove(@, key_to_delete)]
                                   ELSE rpool
                       /\ pool' = [pool EXCEPT ![period] =
                                      RemoveFirst(keys, key_to_delete)]
                       /\ user_states' = [c \in DOMAIN user_states \ {chat_id}
                                             |-> user_states[c]]
    /\ UNCHANGED <<use_github, matchVars, otpVars, sessVars, now, resp,
                   solved, rsolved>>
    /\ UNCHANGED shopVars
    /\ UNCHANGED thrVars

NextDelKey ==
    \/ \E c \in Chats, p \in Periods, read_ok \in BOOLEAN :
           handle_delkey_period_callback(c, p, read_ok)
    \/ \E c \in Chats, i \in 0..(MaxLines - 1), remote_ok \in BOOLEAN :
           handle_confirm_delkey_callback(c, i, remote_ok)
    \/ \E k \in Keys, e \in AdminEmails :
           admin_api_delete_key(k, e, NoFailure)
    \/ \E p \in Periods, k \in Keys, remote_ok \in BOOLEAN :
           process_keys(p, k, remote_ok)

SpecDelKey == InitKeys /\ [][NextDelKey]_vars

\* C29: the chat-bot deletion removes only the selected key from the
\* period's pool: every other key in the pool at confirmation time stays,
\* and no key that left the pool between the listing and the confirmation
\* is in the pool afterwards.
C29_DeleteRemovesOnlySelectedKey ==
    [][\A c \in Chats, i \in 0..(MaxLines - 1), remote_ok \in BOOLEAN :
          (/\ handle_confirm_delkey_callback(c, i, remote_ok)
           /\ c \in DOMAIN user_states
           /\ i < Len(user_states[c].keys))
          => LET p == user_states[c].period
                 k == user_states[c].keys[i + 1]
             IN /\ \A x \in Range(pool[p]) \ {k, Blank} :
                      x \in Range(pool'[p])
                /\ \A x \in Range(pool'[p]) : x \in Range(pool[p])]_vars

----------------------------------------------------------------------------
(* Fulfilment statement by statement: two request threads run              *)
(* check_mb_payment at the same time as the clean-up worker and the        *)
(* dashboard.  Each step is one access to a shared store.  The handler     *)
(* takes no lock, and its sqlite writes (set_email_key, mark_paid,         *)
(* log_key_delivery, decrement_promo) stand outside any try: db_ok says    *)
(* whether the write succeeds or raises (sqlite3.OperationalError when     *)
(* another writer holds the database), which ends the request with the     *)
(* server's 500 answer.                                                    *)

NoRequest ==
    [uid |-> None, email |-> None, period |-> None, promo_code |-> Blank,
     key |-> None, new_system |-> FALSE, old_system |-> FALSE,
     discount_percent |-> 0,
     emailed |-> FALSE, retired |-> FALSE, redeemed |-> FALSE,
     result |-> NoResp]

\* what the steps of a request thread leave alone
flowFrame == UNCHANGED <<use_github, extVars, issued, now>>

\* the request moves on to the next statement
Goto(t, step) ==
    /\ pc' = [pc EXCEPT ![t] = step]
    /\ resp' = resp

\* the request ends with an answer
Answer(t, locals, result) ==
    /\ pc' = [pc EXCEPT ![t] = "done"]
    /\ buf' = [buf EXCEPT ![t] = [locals EXCEPT !.result = result]]
    /\ resp' = result

ServerError == Resp("check_mb_payment", "error", "exception")

\* app.py 1412-1492: the request is read, get_order, the bank call and the
\* scan of its reply
ReceiveRequest(t, uid, period_code, promo_code) ==
    LET locals == [NoRequest EXCEPT !.uid = uid, !.email = "a@x",
                                    !.period = period_code,
                                    !.promo_code = promo_code]
        error(reason) == Resp("check_mb_payment", "error", reason)
    IN /\ pc[t] = "idle"
       /\ IF uid \notin DOMAIN orders
          THEN Answer(t, locals, error("unknown_order"))
          ELSE IF orders[uid].paid = 1
          THEN Answer(t, locals,
                      Resp("check_mb_payment", "ok", "already_paid"))
          ELSE \E transactions \in BankReplies(now) :
                  IF FindTx(transactions, 1000,
                            orders[uid].verification_code, now) = 0
                  THEN Answer(t, locals, error("not_found"))
                  ELSE /\ buf' = [buf EXCEPT ![t] = locals]
                       /\ Goto(t, "resolve")
       /\ UNCHANGED shopStores
       /\ flowFrame

\* app.py 1497-1520: is_coupon_valid, else get_promo
ResolvePromo(t) ==
    LET code == buf[t].promo_code
        new_system == code # Blank
                      /\ is_coupon_valid(code, buf[t].period, now) = "valid"
        old_system == code # Blank /\ ~new_system /\ get_promo(code, now)
    IN /\ pc[t] = "resolve"
       /\ IF code # Blank /\ ~new_system /\ ~old_system
          THEN Answer(t, buf[t],
                      Resp("check_mb_payment", "error", "invalid_coupon"))
          ELSE /\ buf' = [buf EXCEPT
                          ![t].new_system = new_system,
                          ![t].old_system = old_system,
                          ![t].discount_percent =
                              IF new_system THEN coupons[code].discount
                              ELSE IF old_system
                              THEN promo_codes[code].discount
                              ELSE 0]
               /\ Goto(t, "draw")
       /\ UNCHANGED shopStores
       /\ flowFrame

\* app.py 1524-1529: generate_key
DrawKey(t) ==
    LET key == get_key_from_file(pool[buf[t].period])
    IN /\ pc[t] = "draw"
       /\ IF key = None \/ key = Blank
          THEN Answer(t, buf[t], Resp("check_mb_payment", "error", "no_key"))
          ELSE /\ buf' = [buf EXCEPT ![t].key = key]
               /\ Goto(t, "send")
       /\ UNCHANGED shopStores
       /\ flowFrame

\* app.py 1531-1536: send_key
SendKey(t, mail_ok) ==
    /\ pc[t] = "send"
    /\ IF mail_ok
       THEN /\ sent' = Append(sent, [uid |-> buf[t].uid,
                                     email |-> buf[t].email,
                                     key |-> buf[t].key])
            /\ buf' = [buf EXCEPT ![t].emailed = TRUE]
            /\ Goto(t, "set_email_key")
       ELSE /\ Answer(t, buf[t],
                      Resp("check_mb_payment", "error", "email_failed"))
            /\ UNCHANGED sent
    /\ UNCHANGED <<pool, rpool, solved, rsolved, orders, coupons, promo_codes,
                   dlog>>
    /\ flowFrame

\* app.py 1539: set_email_key(uid, email, key, promo_code)
SetEmailKey(t, db_ok) ==
    /\ pc[t] = "set_email_key"
    /\ IF db_ok
       THEN /\ orders' = set_email_key(orders, buf[t].uid, buf[t].email,
                                       buf[t].key, buf[t].promo_code)
            /\ Goto(t, "mark_paid")
            /\ UNCHANGED buf
       ELSE /\ Answer(t, buf[t], ServerError)
            /\ UNCHANGED orders
    /\ UNCHANGED <<pool, rpool, solved, rsolved, coupons, promo_codes, sent,
                   dlog>>
    /\ flowFrame

\* app.py 1540: mark_paid(uid)
MarkPaid(t, db_ok) ==
    /\ pc[t] = "mark_paid"
    /\ IF db_ok
       THEN /\ orders' = mark_paid(orders, buf[t].uid)
            /\ Goto(t, "log")
            /\ UNCHANGED buf
       ELSE /\ Answer(t, buf[t], ServerError)
            /\ UNCHANGED orders
    /\ UNCHANGED <<pool, rpool, solved, rsolved, coupons, promo_codes, sent,
                   dlog>>
    /\ flowFrame

\* app.py 1543: log_key_delivery(uid, email, key, period, "sent")
LogKeyDelivery(t, db_ok) ==
    /\ pc[t] = "log"
    /\ IF db_ok
       THEN /\ dlog' = Append(dlog, [uid |-> buf[t].uid,
                                     email |-> buf[t].email,
                                     key |-> buf[t].key,
                                     period |-> buf[t].period,
                                     status |-> "sent"])
            /\ Goto(t, "retire")
            /\ UNCHANGED buf
       ELSE /\ Answer(t, buf[t], ServerError)
            /\ UNCHANGED dlog
    /\ UNCHANGED <<pool, rpool, solved, rsolved, orders, coupons, promo_codes,
                   sent>>
    /\ flowFrame

\* app.py 1546-1552: delete_key_from_file(key, email); its result is only
\* printed
RetireKey(t, f) ==
    LET r == delete_key_from_file(KeyState, buf[t].key, buf[t].email, now, f)
    IN /\ pc[t] = "retire"
       /\ pool' = r.pool
       /\ rpool' = r.rpool
       /\ solved' = r.solved
       /\ rsolved' = r.rsolved
       /\ buf' = [buf EXCEPT ![t].retired = r.ret]
       /\ Goto(t, "redeem")
       /\ UNCHANGED <<orders, coupons, promo_codes, sent, dlog>>
       /\ flowFrame

\* app.py 1554-1584: use_coupon or decrement_promo, then the answer
RedeemPromo(t, db_ok) ==
    LET code == buf[t].promo_code
        discount_percent == buf[t].discount_percent
    IN /\ pc[t] = "redeem"
       /\ IF buf[t].new_system
          THEN /\ coupons' = use_coupon(coupons, code)
               /\ UNCHANGED promo_codes
               /\ Answer(t, [buf[t] EXCEPT !.redeemed = TRUE],
                         Delivered(buf[t].key, discount_percent))
          ELSE IF buf[t].old_system
          THEN IF db_ok
               THEN /\ promo_codes' = decrement_promo(promo_codes, code)
                    /\ UNCHANGED coupons
                    /\ Answer(t, [buf[t] EXCEPT !.redeemed = TRUE],
                              Delivered(buf[t].key, discount_percent))
               ELSE /\ UNCHANGED <<coupons, promo_codes>>
                    /\ Answer(t, buf[t], ServerError)
          ELSE /\ UNCHANGED <<coupons, promo_codes>>
               /\ Answer(t, buf[t], Delivered(buf[t].key, discount_percent))
       /\ UNCHANGED <<pool, rpool, solved, rsolved, orders, sent, dlog>>
       /\ flowFrame

\* both orders exist and are unpaid; U1 was created more than
\* cleanup_minutes ago, U2 just now
FlowOrders ==
    [u \in Uids |-> [NewOrder(u) EXCEPT
                        !.created_at = IF u = "U1" THEN DAY - 1000 ELSE DAY]]

InitFlow ==
    /\ now = DAY
    /\ use_github = FALSE
    /\ pool = [p \in Periods |-> IF p = "1d" THEN <<"K1", "K2">> ELSE <<>>]
    /\ rpool = pool
    /\ solved = <<>>
    /\ rsolved = <<>>
    /\ issued = Uids
    /\ orders = FlowOrders
    /\ coupons = InitCoupons
    /\ promo_codes = InitPromos
    /\ sent = <<>>
    /\ dlog = <<>>
    /\ resp = NoResp
    /\ pc = [t \in Threads |-> "idle"]
    /\ buf = [t \in Threads |-> NoRequest]
    /\ InitOtpIdle
    /\ InitBotIdle
    /\ InitSessIdle
    /\ InitMatchIdle

NextFlow ==
    \/ \E t \in Threads, u \in Uids, p \in Periods, c \in {Blank, "SAVE"} :
           ReceiveRequest(t, u, p, c)
    \/ \E t \in Threads : ResolvePromo(t)
    \/ \E t \in Threads : DrawKey(t)
    \/ \E t \in Threads, mail_ok \in BOOLEAN : SendKey(t, mail_ok)
    \/ \E t \in Threads, db_ok \in BOOLEAN : SetEmailKey(t, db_ok)
    \/ \E t \in Threads, db_ok \in BOOLEAN : MarkPaid(t, db_ok)
    \/ \E t \in Threads, db_ok \in BOOLEAN : LogKeyDelivery(t, db_ok)
    \/ \E t \in Threads, f \in ShopFailures : RetireKey(t, f)
    \/ \E t \in Threads, db_ok \in BOOLEAN : RedeemPromo(t, db_ok)
    \/ \E m \in CleanupMinutes : delete_pending_orders(m)
    \/ \E u \in Uids : admin_api_delete_order(u)

SpecFlow == InitFlow /\ [][NextFlow]_vars

\* the request threads that have had their delivery email accepted
Emailed == {t \in Threads : buf[t].emailed}

\* C23: once the delivery email has been accepted, a failure of a later
\* step is swallowed: the request ends with the success response that
\* carries the key, and the send is not repeated within the request.
C23_PostSendFailureSwallowed ==
    /\ \A t \in Emailed :
          pc[t] = "done" => /\ buf[t].result.status = "ok"
                            /\ buf[t].result.reason = "sent"
                            /\ buf[t].result.key = buf[t].key
    /\ Len(sent) = Cardinality(Emailed)

\* C26: for one uid, under every interleaving of two fulfilment requests,
\* at most one delivery email is sent, at most one solved-log line is
\* written and a discount code is decremented at most once.
C26_DoubleClickDeliversOnce ==
    \A u \in Uids :
        /\ Cardinality(SentTo(u)) <= 1
        /\ Cardinality({t \in Threads : buf[t].uid = u /\ buf[t].retired}) <= 1
        /\ Cardinality({t \in Threads : buf[t].uid = u /\ buf[t].redeemed}) <= 1

\* C27: when fulfilment has sent the delivery email for an order, its
\* updates leave the order stored with paid = 1 and the delivered key and
\* email attached, also when the clean-up worker or an admin delete ran
\* after the request's order lookup.
C27_SentOrderIsStoredPaid ==
    [][\A t \in Threads :
          MarkPaid(t, TRUE)
          => /\ buf[t].uid \in DOMAIN orders'
             /\ orders'[buf[t].uid].paid = 1
             /\ orders'[buf[t].uid].key = buf[t].key
             /\ orders'[buf[t].uid].email = buf[t].email]_vars

\* C30: a limited code with N uses left is redeemed by at most N
\* successful fulfilments under every interleaving, and its uses_left
\* never becomes negative, in the coupon store and in the promo table.
C30_LimitedCodeUsedAtMostN ==
    /\ \A c \in DOMAIN coupons :
          /\ coupons[c].uses_left >= 0
          /\ Cardinality({t \in Emailed : buf[t].promo_code = c
                                          /\ buf[t].new_system}) <= MaxUses
    /\ \A c \in DOMAIN promo_codes :
          /\ promo_codes[c].uses_left >= 0
          /\ Cardinality({t \in Emailed : buf[t].promo_code = c
                                          /\ buf[t].old_system}) <= MaxUses

====
